---- MODULE Spec2Model ----
(***************************************************************************)
(* Model of two source files of the flang tree:                            *)
(*   src/runtime/flang/descRW.c          collective descriptor I/O         *)
(*   src/tools/flang2/flang2exe/fastset.h  fast sets of small integers     *)
(*                                                                         *)
(* Part I models __fortio_main, __io_read and __io_write as run by NProcs  *)
(* participants of one collective call.  Part II models the fast set.      *)
(* The two parts share no state; each has its own specification: Spec for  *)
(* the I/O engine, SetSpec for the fast set.  AddSpec, RemSpec, PopSpec    *)
(* and FreshSpec are SetSpec with one history variable recorded each.      *)
(***************************************************************************)
EXTENDS Integers, Sequences, FiniteSets, TLC

(* ------------------------------ bounds -------------------------------- *)
NProcs == 2
MaxRuns == 2
MaxLimit == 3

Procs == 0 .. (NProcs - 1)

(* Values f90io_rw may return: 0 is success, nonzero is an error code.      *)
Rets == {0, 1}
(* Element byte lengths (F90_LEN_G / GET_DIST_SIZE_OF) the call is tried on *)
Lens == {1, 4}
(* Global element counts (F90_GSIZE_G) and ranks (F90_RANK_G) tried.        *)
GSizes == {-1, 0, 6}
Ranks == {0, 1}

VARIABLES
  localMode,  \* LOCAL_MODE
  ioproc,     \* GET_DIST_IOPROC
  rw,         \* argument rw of __fortio_main: 0 => read, 1 => write
  ac,         \* the descriptor: [tag, gsize, rank, len]
  nruns,      \* number of runs __fortio_loop yields for this descriptor
  pc,         \* per participant: "start", "xfer", "recv", "done"
  z,          \* per participant: fio_parm z = [stat, cnt, str, run, todo]
  ret,        \* per participant: value returned by __fortio_main
  obs,        \* per participant: what the participant has called so far
  chan,       \* per participant: runs sent to it and not yet received
  sendLog,    \* every __fort_rsendl executed, in order
  bcast,      \* the broadcast root has executed __fort_rbcstl
  members, limit, member, index,  \* struct fastset
  elems,      \* the values added and not since removed, popped or vacated
  popped,     \* <<v>> when the last operation was fastset_pop returning v
              \* (recorded under PopSpec only)
  added,      \* <<x>> when the last operation was fastset_add(x)
              \* (recorded under AddSpec only)
  removed,    \* <<x>> when the last operation was fastset_remove(x) of a
              \* member x (recorded under RemSpec only)
  fresh       \* the fastset_add calls since the last fastset_init or
              \* fastset_vacate (recorded under FreshSpec only)

ioVars == <<localMode, ioproc, rw, ac, nruns, pc, z, ret, obs, chan, sendLog, bcast>>
setVars == <<members, limit, member, index, elems, popped, added, removed, fresh>>
vars == <<localMode, ioproc, rw, ac, nruns, pc, z, ret, obs, chan, sendLog, bcast,
          members, limit, member, index, elems, popped, added, removed, fresh>>

(***************************************************************************)
(* Part I.  descRW.c                                                       *)
(***************************************************************************)

ScalarDescs == [tag : {"SCALAR"}, gsize : {1}, rank : {0}, len : Lens]
ArrayDescs == [tag : {"DESC"}, gsize : GSizes, rank : Ranks, len : Lens]

(* The runs the run iterator yields, the same for every participant: run k *)
(* has RunCnt(k) elements and stride RunStr(k).                            *)
RunCnt(k) == k + 1
RunStr(k) == k

NoCall == [cnt |-> 0, stride |-> 0, adr |-> "none", len |-> 0]

ObsInit ==
  [calls |-> 0, firstErr |-> 0, lastCall |-> NoCall, lastAdr |-> "none",
   lastCalled |-> FALSE, laCalls |-> 0, gbufCalls |-> 0, replCalls |-> 0,
   ownerCalls |-> 0, loopCalls |-> 0, xfers |-> 0, sends |-> 0, recvs |-> 0,
   bcsts |-> 0, bcstRoot |-> 0]

SetIdle ==
  /\ members = 0 /\ limit = 0 /\ member = <<>> /\ index = <<>> /\ elems = {}
  /\ popped = <<>>
  /\ added = <<>>
  /\ removed = <<>>
  /\ fresh = [via |-> "init", order |-> <<>>]

Init ==
  /\ localMode \in BOOLEAN
  /\ ioproc \in Procs
  /\ rw \in {0, 1}
  /\ ac \in ScalarDescs \cup ArrayDescs
  /\ nruns \in IF ac.tag = "DESC" /\ ac.gsize > 0 /\ ac.rank > 0
               THEN 1 .. MaxRuns ELSE {0}
  /\ pc = [p \in Procs |-> "start"]
  /\ z = [p \in Procs |-> [stat |-> 0, cnt |-> 0, str |-> 0, run |-> 0, todo |-> 0]]
  /\ ret = [p \in Procs |-> 0]
  /\ obs = [p \in Procs |-> ObsInit]
  /\ chan = [p \in Procs |-> <<>>]
  /\ sendLog = <<>>
  /\ bcast = FALSE
  /\ SetIdle

(* #define __fort_owner(a, b) 0 *)
fort_owner(a, b) == 0

(* #define __fort_next_owner(a, b, c, d) -1 *)
fort_next_owner(a, b, c, d) == -1

(* #define __fortio_stat_bcst(a): the macro yields the local z.stat itself *)
fortio_stat_bcst(st) == st

(* Variant of MayInvoke without the short-circuit: the callback is invoked  *)
(* whatever status is recorded.  C6 must fail with it.                     *)
MayInvoke_always(st) == TRUE

(* if (!z->stat) : the callback is invoked only while no status is recorded *)
MayInvoke(st) == st = 0

(* Variant of GlobalRead that forgets the mode: writes would broadcast too. *)
(* C5 must fail with it.                                                   *)
GlobalRead_ignoresRw == ~localMode

(* Variant of GlobalRead that forgets LOCAL_MODE: a local read would set up *)
(* replication and broadcast too.  C18 must fail with it.                  *)
GlobalRead_ignoresLocalMode == rw = 0

(* if (!rw && !LOCAL_MODE)  -- "if global read..." *)
GlobalRead == rw = 0 /\ ~localMode

(* if (F90_TAG_G(ac) != __DESC)  -- scalar *)
IsScalar == ac.tag # "DESC"

(* Variant of ZeroSize that lets a count of exactly 0 through.  C7 must     *)
(* fail with it.                                                           *)
ZeroSize_negativeOnly == ac.gsize < 0

(* if (F90_GSIZE_G(ac) <= 0)  -- zero-size array *)
ZeroSize == ac.gsize <= 0

(* Variant of ScalarInvokes in which every participant performs the I/O.   *)
(* C9 must fail with it.                                                   *)
ScalarInvokes_everyone(p) == TRUE

(* if (LOCAL_MODE || GET_DIST_LCPU == ioproc) : who performs the scalar I/O *)
ScalarInvokes(p) == localMode \/ p = ioproc

(* The stride argument of the scalar call f90io_rw(kind, 1, 1, ab, size)   *)
ScalarStrideArg(size) == 1

(* The stride argument of the per-run call: str * F90_LEN_G(ac)            *)
RunStrideArg(str, len) == str * len

(* The record of one f90io_rw invocation by participant p that returned r, *)
(* folded into obs[p].                                                     *)
Called(o, call, r) ==
  [o EXCEPT !.calls = @ + 1,
            !.firstErr = IF @ = 0 THEN r ELSE @,
            !.lastCall = call,
            !.lastCalled = TRUE]

AllDone == \A p \in Procs : pc[p] = "done"

(* The participants the coordinator sends one run to: the owner loop       *)
(*   owner = __fort_owner(ac, index);                                      *)
(*   while (owner >= 0) { if (owner != lcpu) send; owner = next_owner; }   *)
RECURSIVE Fanout(_, _, _)
Fanout(owner, lcpu, k) ==
  IF owner >= 0
    THEN (IF owner # lcpu THEN <<owner>> ELSE <<>>)
         \o Fanout(fort_next_owner(ac, 0, 0, owner), lcpu, k)
    ELSE <<>>

(* The run a participant at pc "xfer" transfers next, and its extent: the  *)
(* run iterator's for rank > 0, and z.cnt = 1, z.str = 1 for rank 0.       *)
NextRun(p) == z[p].run + 1
RunCount(p) == IF ac.rank > 0 THEN RunCnt(NextRun(p)) ELSE 1
RunStride(p) == IF ac.rank > 0 THEN RunStr(NextRun(p)) ELSE 1

(* The end of one per-run transfer of participant p, with status st and    *)
(* observations o: the next run, or after the last one                     *)
(*   return __fortio_stat_bcst(&z.stat);                                   *)
Finish(p, st, o) ==
  /\ z' = [z EXCEPT ![p] = [stat |-> st, cnt |-> RunCount(p), str |-> RunStride(p),
                            run |-> NextRun(p), todo |-> z[p].todo]]
  /\ obs' = [obs EXCEPT ![p] = o]
  /\ IF NextRun(p) >= z[p].todo
       THEN /\ pc' = [pc EXCEPT ![p] = "done"]
            /\ ret' = [ret EXCEPT ![p] = fortio_stat_bcst(st)]
       ELSE /\ pc' = [pc EXCEPT ![p] = "xfer"]
            /\ ret' = ret

(* __fortio_main, scalar descriptor (lines 105-118).  At a participant     *)
(* other than the root __fort_rbcstl completes once the root has sent.     *)
FortioMainScalar(p) ==
  /\ pc[p] = "start"
  /\ IsScalar
  /\ (GlobalRead /\ p # ioproc) => bcast
  /\ \E r \in Rets :
       LET invoke == ScalarInvokes(p)
           st == IF invoke THEN r ELSE 0
           call == [cnt |-> 1, stride |-> ScalarStrideArg(ac.len), adr |-> "ab",
                    len |-> ac.len]
           o1 == IF invoke THEN Called(obs[p], call, r) ELSE obs[p]
           o2 == IF GlobalRead
                   THEN [o1 EXCEPT !.bcsts = @ + 1, !.bcstRoot = ioproc]
                   ELSE o1
       IN  /\ invoke \/ r = 0
           /\ z' = [z EXCEPT ![p].stat = st]
           /\ obs' = [obs EXCEPT ![p] = o2]
           /\ ret' = [ret EXCEPT ![p] = fortio_stat_bcst(st)]
  /\ bcast' = (bcast \/ (GlobalRead /\ p = ioproc))
  /\ pc' = [pc EXCEPT ![p] = "done"]
  /\ UNCHANGED <<localMode, ioproc, rw, ac, nruns, chan, sendLog>>
  /\ UNCHANGED setVars

(* __fortio_main, zero-size array (lines 119-120): return 0.               *)
FortioMainZeroSize(p) ==
  /\ pc[p] = "start"
  /\ ~IsScalar
  /\ ZeroSize
  /\ pc' = [pc EXCEPT ![p] = "done"]
  /\ ret' = [ret EXCEPT ![p] = 0]
  /\ UNCHANGED <<localMode, ioproc, rw, ac, nruns, z, obs, chan, sendLog, bcast>>
  /\ UNCHANGED setVars

(* Variant of FortioMainArray that hands every array descriptor to the run *)
(* iterator, rank 0 included.  C16 must fail with it.                      *)
FortioMainArray_alwaysLoops(p) ==
  /\ pc[p] = "start"
  /\ ~IsScalar
  /\ ~ZeroSize
  /\ z' = [z EXCEPT ![p] = [stat |-> 0, cnt |-> 0, str |-> 0, run |-> 0,
                            todo |-> nruns]]
  /\ obs' = [obs EXCEPT ![p].replCalls = IF GlobalRead THEN @ + 1 ELSE @,
                        ![p].loopCalls = @ + 1]
  /\ pc' = [pc EXCEPT ![p] = "xfer"]
  /\ UNCHANGED <<localMode, ioproc, rw, ac, nruns, ret, chan, sendLog, bcast>>
  /\ UNCHANGED setVars

(* __fortio_main, array set-up (lines 121-133): the replication descriptor *)
(* for a global read, then the run iterator for rank > 0 or one transfer   *)
(* with z.cnt = 1, z.str = 1.                                              *)
FortioMainArray(p) ==
  /\ pc[p] = "start"
  /\ ~IsScalar
  /\ ~ZeroSize
  /\ z' = [z EXCEPT ![p] = [stat |-> 0, cnt |-> 0, str |-> 0, run |-> 0,
                            todo |-> IF ac.rank > 0 THEN nruns ELSE 1]]
  /\ obs' = [obs EXCEPT ![p].replCalls = IF GlobalRead THEN @ + 1 ELSE @,
                        ![p].loopCalls = IF ac.rank > 0 THEN @ + 1 ELSE @]
  /\ pc' = [pc EXCEPT ![p] = "xfer"]
  /\ UNCHANGED <<localMode, ioproc, rw, ac, nruns, ret, chan, sendLog, bcast>>
  /\ UNCHANGED setVars

(* The observations of a per-run transfer up to the resolved local address *)
Resolved(p, adr) ==
  [obs[p] EXCEPT !.xfers = @ + 1, !.laCalls = @ + 1, !.lastAdr = adr,
                 !.lastCalled = FALSE]

(* __io_write (lines 75-94)                                                *)
io_write(p) ==
  /\ pc[p] = "xfer"
  /\ rw # 0
  /\ \E adr \in {"null", "local"}, r \in Rets :
       LET invoke == MayInvoke(z[p].stat)
           call == [cnt |-> RunCount(p), stride |-> RunStrideArg(RunStride(p), ac.len),
                    adr |-> adr, len |-> ac.len]
           o0 == Resolved(p, adr)
       IN  /\ invoke \/ r = 0
           /\ Finish(p, IF invoke THEN r ELSE z[p].stat,
                        IF invoke THEN Called(o0, call, r) ELSE o0)
  /\ UNCHANGED <<localMode, ioproc, rw, ac, nruns, chan, sendLog, bcast>>
  /\ UNCHANGED setVars

(* __io_read in LOCAL_MODE (lines 47-52)                                   *)
io_read_local(p) ==
  /\ pc[p] = "xfer"
  /\ rw = 0
  /\ localMode
  /\ \E adr \in {"null", "local"}, r \in Rets :
       LET invoke == MayInvoke(z[p].stat)
           call == [cnt |-> RunCount(p), stride |-> RunStrideArg(RunStride(p), ac.len),
                    adr |-> adr, len |-> ac.len]
           o0 == Resolved(p, adr)
       IN  /\ invoke \/ r = 0
           /\ Finish(p, IF invoke THEN r ELSE z[p].stat,
                        IF invoke THEN Called(o0, call, r) ELSE o0)
  /\ UNCHANGED <<localMode, ioproc, rw, ac, nruns, chan, sendLog, bcast>>
  /\ UNCHANGED setVars

(* Variant of io_read_ioproc that keeps the run's stride when the run is    *)
(* read into the scratch buffer.  C15 must fail with it.                   *)
io_read_ioproc_keepStride(p) ==
  /\ pc[p] = "xfer"
  /\ rw = 0
  /\ ~localMode
  /\ p = ioproc
  /\ \E adr \in {"null", "local"}, r \in Rets :
       LET invoke == MayInvoke(z[p].stat)
           buf == IF adr = "null" THEN "buf" ELSE adr
           str == RunStride(p)
           call == [cnt |-> RunCount(p), stride |-> RunStrideArg(str, ac.len),
                    adr |-> buf, len |-> ac.len]
           dests == Fanout(fort_owner(ac, NextRun(p)), p, NextRun(p))
           o0 == [Resolved(p, adr) EXCEPT !.gbufCalls = @ + 1,
                                          !.ownerCalls = @ + 1,
                                          !.sends = @ + Len(dests)]
       IN  /\ invoke \/ r = 0
           /\ chan' = [q \in Procs |->
                         chan[q] \o [i \in 1 .. Len(SelectSeq(dests, LAMBDA d : d = q))
                                       |-> NextRun(p)]]
           /\ sendLog' = sendLog \o
                           [i \in 1 .. Len(dests) |->
                              [run |-> NextRun(p), to |-> dests[i], cnt |-> RunCount(p),
                               str |-> str, adr |-> buf]]
           /\ Finish(p, IF invoke THEN r ELSE z[p].stat,
                        IF invoke THEN Called(o0, call, r) ELSE o0)
  /\ UNCHANGED <<localMode, ioproc, rw, ac, nruns, bcast>>
  /\ UNCHANGED setVars

(* __io_read at the I/O coordinator (lines 53-70): the callback fills the  *)
(* local address or the scratch buffer, then the run is sent to the owners *)
io_read_ioproc(p) ==
  /\ pc[p] = "xfer"
  /\ rw = 0
  /\ ~localMode
  /\ p = ioproc
  /\ \E adr \in {"null", "local"}, r \in Rets :
       LET invoke == MayInvoke(z[p].stat)
           buf == IF adr = "null" THEN "buf" ELSE adr
           str == IF adr = "null" THEN 1 ELSE RunStride(p)
           call == [cnt |-> RunCount(p), stride |-> RunStrideArg(str, ac.len),
                    adr |-> buf, len |-> ac.len]
           dests == Fanout(fort_owner(ac, NextRun(p)), p, NextRun(p))
           o0 == [Resolved(p, adr) EXCEPT !.gbufCalls = @ + 1,
                                          !.ownerCalls = @ + 1,
                                          !.sends = @ + Len(dests)]
       IN  /\ invoke \/ r = 0
           /\ chan' = [q \in Procs |->
                         chan[q] \o [i \in 1 .. Len(SelectSeq(dests, LAMBDA d : d = q))
                                       |-> NextRun(p)]]
           /\ sendLog' = sendLog \o
                           [i \in 1 .. Len(dests) |->
                              [run |-> NextRun(p), to |-> dests[i], cnt |-> RunCount(p),
                               str |-> str, adr |-> buf]]
           /\ Finish(p, IF invoke THEN r ELSE z[p].stat,
                        IF invoke THEN Called(o0, call, r) ELSE o0)
  /\ UNCHANGED <<localMode, ioproc, rw, ac, nruns, bcast>>
  /\ UNCHANGED setVars

(* Variant of io_read_other that posts the receive whatever the local      *)
(* address is.  C17 must fail with it.                                     *)
io_read_other_alwaysRecv(p) ==
  /\ pc[p] = "xfer"
  /\ rw = 0
  /\ ~localMode
  /\ p # ioproc
  /\ \E adr \in {"null", "local"} :
       LET o0 == [Resolved(p, adr) EXCEPT !.gbufCalls = @ + 1]
       IN  /\ pc' = [pc EXCEPT ![p] = "recv"]
           /\ obs' = [obs EXCEPT ![p] = [o0 EXCEPT !.recvs = @ + 1]]
           /\ UNCHANGED <<z, ret>>
  /\ UNCHANGED <<localMode, ioproc, rw, ac, nruns, chan, sendLog, bcast>>
  /\ UNCHANGED setVars

(* __io_read at another participant (lines 53-54, 71-72): with a non-null  *)
(* local address it posts the blocking receive of the run                  *)
io_read_other(p) ==
  /\ pc[p] = "xfer"
  /\ rw = 0
  /\ ~localMode
  /\ p # ioproc
  /\ \E adr \in {"null", "local"} :
       LET o0 == [Resolved(p, adr) EXCEPT !.gbufCalls = @ + 1]
       IN  IF adr # "null"
             THEN /\ pc' = [pc EXCEPT ![p] = "recv"]
                  /\ obs' = [obs EXCEPT ![p] = [o0 EXCEPT !.recvs = @ + 1]]
                  /\ UNCHANGED <<z, ret>>
             ELSE Finish(p, z[p].stat, o0)
  /\ UNCHANGED <<localMode, ioproc, rw, ac, nruns, chan, sendLog, bcast>>
  /\ UNCHANGED setVars

(* __fort_rrecvl(ioproc, ...) returns: a message from the coordinator has  *)
(* arrived; __io_read returns to the run iterator.                         *)
RecvDone(p) ==
  /\ pc[p] = "recv"
  /\ chan[p] # <<>>
  /\ chan' = [chan EXCEPT ![p] = Tail(@)]
  /\ Finish(p, z[p].stat, obs[p])
  /\ UNCHANGED <<localMode, ioproc, rw, ac, nruns, sendLog, bcast>>
  /\ UNCHANGED setVars

Next ==
  \E p \in Procs :
    \/ FortioMainScalar(p)
    \/ FortioMainZeroSize(p)
    \/ FortioMainArray(p)
    \/ io_write(p)
    \/ io_read_local(p)
    \/ io_read_ioproc(p)
    \/ io_read_other(p)
    \/ RecvDone(p)

Spec == Init /\ [][Next]_vars

(***************************************************************************)
(* Claims about the I/O engine, checked under Spec                         *)
(***************************************************************************)

MultiRead == ~localMode /\ rw = 0
ScalarCall == ac.tag = "SCALAR"
ArrayCall == ac.tag = "DESC" /\ ac.gsize > 0
ZeroSizeArray == ac.tag = "DESC" /\ ac.gsize <= 0
NoTraffic ==
  /\ \A p \in Procs : obs[p].sends = 0 /\ obs[p].recvs = 0 /\ obs[p].bcsts = 0
  /\ \A p \in Procs : chan[p] = <<>>
  /\ sendLog = <<>>
  /\ ~bcast

(* C1: in a multi-participant read, once every participant has returned,   *)
(* all of them return the status computed at the I/O coordinator (so a     *)
(* nonzero status at the coordinator is nonzero everywhere).               *)
C1_SameStatusEverywhere ==
  (MultiRead /\ AllDone) => \A p \in Procs : ret[p] = ret[ioproc]

(* C2: in a multi-participant array read every participant's call returns: *)
(* the system never stops before all participants have returned, i.e. no   *)
(* participant stays blocked in a receive that no send of the coordinator  *)
(* matches.                                                                *)
C2_ReadAlwaysReturns ==
  (MultiRead /\ ArrayCall) => (AllDone \/ ENABLED Next)

(* The run for which participant q last resolved a non-null local address  *)
(* (0 when its last resolution gave null or it has resolved none).         *)
HeldRun(q) ==
  IF pc[q] = "recv" THEN NextRun(q)
  ELSE IF obs[q].lastAdr = "local" THEN z[q].run ELSE 0
SendsOf(k, q) == {i \in DOMAIN sendLog : sendLog[i].run = k /\ sendLog[i].to = q}

(* C3: in a multi-participant array read, once the coordinator has         *)
(* finished a run it has sent that run exactly once to every other         *)
(* participant holding the run, and it never sends to itself.              *)
C3_SendsToEveryHolder ==
  (MultiRead /\ ArrayCall) =>
    /\ \A q \in Procs \ {ioproc} :
         (HeldRun(q) > 0 /\ z[ioproc].run >= HeldRun(q))
           => Cardinality(SendsOf(HeldRun(q), q)) = 1
    /\ \A i \in DOMAIN sendLog : sendLog[i].to # ioproc

(* C4: in a multi-participant array write of one run that exactly one      *)
(* participant holds (no overlap), each participant has invoked f90io_rw   *)
(* once if it holds the run and not at all if its local address is null.   *)
C4_WriteOnlyOwnedRuns ==
  ( /\ ~localMode /\ rw = 1 /\ ArrayCall /\ AllDone
    /\ \A p \in Procs : z[p].todo = 1
    /\ Cardinality({p \in Procs : obs[p].lastAdr = "local"}) = 1 )
  => \A p \in Procs :
       obs[p].calls = IF obs[p].lastAdr = "local" THEN 1 ELSE 0

(* C5: in write mode no participant sends, receives or broadcasts, for a   *)
(* scalar or an array, in local or multi-participant mode.                 *)
C5_WriteNoTraffic == (rw = 1) => NoTraffic

C5_Witness ==
  /\ rw = 1 /\ ~localMode /\ AllDone
  /\ \A p \in Procs : obs[p].calls > 0

(* C6: once a participant's recorded status is nonzero it never invokes    *)
(* f90io_rw again, and the status it returns is the first nonzero value    *)
(* f90io_rw returned to it, or 0 if there was none.                        *)
C6_ShortCircuit ==
  [][\A p \in Procs :
       /\ (z[p].stat # 0) => (obs'[p].calls = obs[p].calls)
       /\ (pc'[p] = "done") => (ret'[p] = obs'[p].firstErr)]_vars

C6_Witness ==
  \E p \in Procs :
    /\ pc[p] = "done" /\ ret[p] # 0
    /\ obs[p].xfers >= 2 /\ obs[p].calls < obs[p].xfers

(* C7: for an array descriptor with global element count <= 0 every        *)
(* participant returns 0 and has called nothing: no f90io_rw, no local     *)
(* address resolution, no replication set-up, no send, receive, broadcast. *)
C7_ZeroSizeDoesNothing ==
  ZeroSizeArray =>
    /\ \A p \in Procs : obs[p] = ObsInit /\ (pc[p] = "done" => ret[p] = 0)
    /\ NoTraffic

C7_Witness == ZeroSizeArray /\ ac.gsize = 0 /\ MultiRead /\ AllDone

(* C8: a scalar written in local mode: f90io_rw is invoked exactly once,   *)
(* with count 1 and a stride argument equal to the element length, and     *)
(* nothing is broadcast.                                                   *)
C8_ScalarLocalWrite ==
  (ScalarCall /\ localMode /\ rw = 1) =>
    \A p \in Procs :
      pc[p] = "done" =>
        /\ obs[p].calls = 1
        /\ obs[p].lastCall.cnt = 1
        /\ obs[p].lastCall.stride = ac.len
        /\ obs[p].bcsts = 0

(* C9: for a scalar in multi-participant mode only the coordinator invokes *)
(* f90io_rw, exactly once; on a read every participant takes part in one   *)
(* broadcast rooted at the coordinator, which a participant leaves only     *)
(* after the coordinator has sent; on a write nothing is broadcast.        *)
C9_ScalarCoordinatorOnly ==
  (ScalarCall /\ ~localMode) =>
    \A p \in Procs :
      /\ p # ioproc => obs[p].calls = 0
      /\ pc[p] = "done" =>
           /\ obs[p].calls = IF p = ioproc THEN 1 ELSE 0
           /\ obs[p].bcsts = IF rw = 0 THEN 1 ELSE 0
           /\ rw = 0 => (obs[p].bcstRoot = ioproc /\ bcast)

C9_Witness ==
  /\ ScalarCall /\ MultiRead /\ AllDone
  /\ \A p \in Procs : obs[p].bcsts = 1

(* C15: in a multi-participant array read, for each run processed while    *)
(* the coordinator's status is still zero the coordinator invokes f90io_rw *)
(* exactly once: into its own local address with the run's stride when it  *)
(* holds the run, and into the scratch buffer with stride 1 when its local *)
(* address is null; the sends of that run use the same buffer and the same *)
(* stride as the callback was given.                                       *)
C15_CoordinatorReadsOncePerRun ==
  [][( /\ MultiRead /\ ArrayCall
       /\ z[ioproc].stat = 0
       /\ obs'[ioproc].xfers = obs[ioproc].xfers + 1 )
     => /\ obs'[ioproc].calls = obs[ioproc].calls + 1
        /\ obs'[ioproc].lastCalled
        /\ obs'[ioproc].lastCall.cnt = z'[ioproc].cnt
        /\ obs'[ioproc].lastCall.len = ac.len
        /\ obs'[ioproc].lastAdr = "local" =>
             /\ obs'[ioproc].lastCall.adr = "local"
             /\ obs'[ioproc].lastCall.stride = z'[ioproc].str * ac.len
        /\ obs'[ioproc].lastAdr = "null" =>
             /\ obs'[ioproc].lastCall.adr = "buf"
             /\ obs'[ioproc].lastCall.stride = 1 * ac.len
        /\ obs'[ioproc].lastAdr \in {"local", "null"}
        /\ \A i \in (Len(sendLog) + 1) .. Len(sendLog') :
             /\ sendLog'[i].run = z'[ioproc].run
             /\ sendLog'[i].adr = obs'[ioproc].lastCall.adr
             /\ sendLog'[i].str * ac.len = obs'[ioproc].lastCall.stride
             /\ sendLog'[i].cnt = obs'[ioproc].lastCall.cnt]_vars

(* The coordinator, which holds no part of run 2 (a run of stride 2), has  *)
(* read it into the scratch buffer with stride 1 and sent it from there.   *)
C15_Witness ==
  /\ MultiRead /\ ArrayCall
  /\ z[ioproc].run = 2 /\ z[ioproc].str = 2 /\ z[ioproc].stat = 0
  /\ obs[ioproc].calls = 2
  /\ obs[ioproc].lastAdr = "null"
  /\ obs[ioproc].lastCall.adr = "buf"
  /\ obs[ioproc].lastCall.stride = ac.len
  /\ sendLog # <<>>
  /\ sendLog[Len(sendLog)].run = 2
  /\ sendLog[Len(sendLog)].adr = "buf"
  /\ sendLog[Len(sendLog)].str = 1

(* C16: for a descriptor tagged as an array descriptor with rank 0 and     *)
(* global element count > 0, __fortio_main performs exactly one per-run    *)
(* transfer, with count 1 and stride 1, and never calls the run iterator;  *)
(* for rank > 0 it performs no transfer other than those the run iterator  *)
(* issues.  (z.cnt and z.str are those of the last transfer completed; a   *)
(* participant at "recv" is inside a transfer.)                            *)
C16_RankZeroSingleRun ==
  ArrayCall =>
    \A p \in Procs :
      IF ac.rank = 0
        THEN /\ obs[p].loopCalls = 0
             /\ obs[p].xfers <= 1
             /\ pc[p] = "done" => obs[p].xfers = 1
             /\ (obs[p].xfers = 1 /\ pc[p] # "recv") =>
                  (z[p].cnt = 1 /\ z[p].str = 1)
        ELSE /\ obs[p].xfers > 0 => obs[p].loopCalls = 1
             /\ obs[p].xfers <= nruns
             /\ pc[p] = "done" => obs[p].xfers = nruns
             /\ (obs[p].xfers > 0 /\ pc[p] # "recv") =>
                  /\ z[p].cnt = RunCnt(obs[p].xfers)
                  /\ z[p].str = RunStr(obs[p].xfers)

(* A rank-0 array descriptor in a multi-participant read: every            *)
(* participant has returned after its single transfer.                     *)
C16_Witness ==
  /\ ArrayCall /\ ac.rank = 0 /\ MultiRead /\ AllDone
  /\ \A p \in Procs : obs[p].xfers = 1 /\ obs[p].loopCalls = 0
  /\ obs[ioproc].lastCall.cnt = 1

(* C17: in a multi-participant read (scalar or array) no participant other *)
(* than the I/O coordinator ever invokes f90io_rw, and a participant other *)
(* than the coordinator whose local address for a run is null performs no  *)
(* send and no receive for that run.                                       *)
C17_OnlyCoordinatorReads ==
  /\ [](MultiRead =>
          \A p \in Procs \ {ioproc} : obs[p].calls = 0 /\ obs[p].sends = 0)
  /\ [][\A p \in Procs \ {ioproc} :
          ( /\ MultiRead
            /\ obs'[p].xfers = obs[p].xfers + 1
            /\ obs'[p].lastAdr = "null" )
          => /\ obs'[p].sends = obs[p].sends
             /\ obs'[p].recvs = obs[p].recvs
             /\ pc'[p] # "recv"
             /\ sendLog' = sendLog
             /\ chan' = chan]_vars

(* A participant that is not the coordinator has gone through two runs of  *)
(* a read, holding nothing of either, and has returned without having      *)
(* called, sent or received anything.                                      *)
C17_Witness ==
  /\ MultiRead /\ ArrayCall
  /\ \E p \in Procs \ {ioproc} :
       /\ pc[p] = "done"
       /\ obs[p].xfers = 2
       /\ obs[p].lastAdr = "null"
       /\ obs[p].recvs = 0 /\ obs[p].calls = 0 /\ obs[p].sends = 0

(* C18: in local mode an array read processes each run by invoking         *)
(* f90io_rw directly on the resolved local address with the run's own      *)
(* stride (while the status is zero), and performs no scratch-buffer       *)
(* acquisition, no owner enumeration, no replication set-up and no send,   *)
(* receive or broadcast.                                                   *)
C18_LocalReadIsDirect ==
  (localMode /\ rw = 0 /\ ArrayCall) =>
    /\ NoTraffic
    /\ \A p \in Procs :
         /\ obs[p].gbufCalls = 0
         /\ obs[p].ownerCalls = 0
         /\ obs[p].replCalls = 0
         /\ obs[p].firstErr = 0 => obs[p].calls = obs[p].xfers
         /\ obs[p].lastCalled =>
              /\ obs[p].lastCall.adr = obs[p].lastAdr
              /\ obs[p].lastCall.cnt = z[p].cnt
              /\ obs[p].lastCall.stride = z[p].str * ac.len
              /\ obs[p].lastCall.len = ac.len

(* Every participant has read two runs in local mode, the second one (of   *)
(* stride 2) into its local address.                                       *)
C18_Witness ==
  /\ localMode /\ rw = 0 /\ ArrayCall /\ AllDone
  /\ \A p \in Procs :
       /\ obs[p].calls = 2
       /\ obs[p].lastCall.adr = "local"
       /\ obs[p].lastCall.stride = 2 * ac.len

(***************************************************************************)
(* Part II.  fastset.h                                                     *)
(*                                                                         *)
(* member[] and index[] are arrays of `limit` cells, indexed from 0.  A    *)
(* cell that was never written holds an arbitrary value: any position, or  *)
(* MaxLimit, which lies beyond every position and every value.             *)
(***************************************************************************)

Vals == 0 .. (MaxLimit - 1)
Garbage == 0 .. MaxLimit
(* The integers the int-typed operations are tried on: a negative one, the *)
(* values, and one that is at or beyond every limit.                       *)
Ints == -1 .. MaxLimit

IoIdle ==
  /\ localMode = FALSE /\ ioproc = 0 /\ rw = 0
  /\ ac = [tag |-> "DESC", gsize |-> 0, rank |-> 0, len |-> 1]
  /\ nruns = 0
  /\ pc = [p \in Procs |-> "done"]
  /\ z = [p \in Procs |-> [stat |-> 0, cnt |-> 0, str |-> 0, run |-> 0, todo |-> 0]]
  /\ ret = [p \in Procs |-> 0]
  /\ obs = [p \in Procs |-> ObsInit]
  /\ chan = [p \in Procs |-> <<>>]
  /\ sendLog = <<>>
  /\ bcast = FALSE

(* The state after fastset_init on a newly declared set                    *)
SetInit == SetIdle /\ IoIdle

(* (unsigned)x < set->limit, for an int x: a negative x converts to a      *)
(* value of at least 2^31, above every limit the model reaches.            *)
UnsignedBelow(x, lim) == x >= 0 /\ x < lim

(* fastset_contains (lines 168-174)                                        *)
fastset_contains(x) ==
  /\ UnsignedBelow(x, limit)
  /\ index[x] < members
  /\ member[index[x]] = x

(* fastset_members (lines 135-139), fastset_get (lines 153-157)            *)
fastset_members == members
fastset_get(idx) == member[idx]

(* fastset_init (lines 122-127)                                            *)
fastset_init ==
  /\ member' = <<>>
  /\ index' = <<>>
  /\ members' = 0
  /\ limit' = 0
  /\ elems' = {}
  /\ UNCHANGED ioVars

(* fastset_vacate (lines 129-133)                                          *)
fastset_vacate ==
  /\ members' = 0
  /\ elems' = {}
  /\ UNCHANGED <<limit, member, index>>
  /\ UNCHANGED ioVars

(* Variant of PopResult that returns the first member while fastset_pop    *)
(* still gives up the last one.  C14 must fail with it.                    *)
PopResult_first == IF members = 0 THEN -1 ELSE member[0]

(* fastset_pop (lines 159-163): -1 when empty, else member[--members]      *)
PopResult == IF members = 0 THEN -1 ELSE member[members - 1]
fastset_pop ==
  /\ members' = IF members = 0 THEN members ELSE members - 1
  /\ elems' = elems \ {PopResult}
  /\ UNCHANGED <<limit, member, index>>
  /\ UNCHANGED ioVars

(* The values repeated fastset_pop calls return until the set is empty:    *)
(* member[members - 1], member[members - 2], ..., member[0].               *)
PopSequence == [i \in 1 .. members |-> member[members - i]]

(* fastset_resize(set, limit_hint): an array regrown to nl >= limit_hint   *)
(* cells; the cells it had keep their contents, the new ones hold g.       *)
fastset_resize(arr, nl, g) ==
  [i \in 0 .. (nl - 1) |-> IF i < limit THEN arr[i] ELSE g[i]]

(* Variant of Insert that stores x in member[] without recording its       *)
(* position in index[x].  C11 must fail with it.                           *)
Insert_noIndex(x, nl, m, ix) ==
  /\ index' = ix
  /\ member' = [m EXCEPT ![members] = x]
  /\ members' = members + 1
  /\ limit' = nl

(* set->member[set->index[x] = set->members++] = x;  (line 187)            *)
Insert(x, nl, m, ix) ==
  /\ index' = [ix EXCEPT ![x] = members]
  /\ member' = [m EXCEPT ![members] = x]
  /\ members' = members + 1
  /\ limit' = nl

(* Variant of fastset_add that takes x for a member as soon as index[x]     *)
(* lies in the live range, without comparing member[index[x]] with x.      *)
(* C13 must fail with it.                                                  *)
fastset_add_trustsIndex(x) ==
  /\ IF x >= limit
       THEN \E nl \in (x + 1) .. MaxLimit :
              \E gm \in [limit .. (nl - 1) -> Garbage],
                 gi \in [limit .. (nl - 1) -> Garbage] :
                Insert(x, nl, fastset_resize(member, nl, gm),
                       fastset_resize(index, nl, gi))
       ELSE IF index[x] < members
              THEN UNCHANGED <<members, limit, member, index>>
              ELSE Insert(x, limit, member, index)
  /\ elems' = elems \cup {x}
  /\ UNCHANGED ioVars

(* fastset_add (lines 176-188)                                             *)
fastset_add(x) ==
  /\ IF x >= limit
       THEN \E nl \in (x + 1) .. MaxLimit :
              \E gm \in [limit .. (nl - 1) -> Garbage],
                 gi \in [limit .. (nl - 1) -> Garbage] :
                Insert(x, nl, fastset_resize(member, nl, gm),
                       fastset_resize(index, nl, gi))
       ELSE IF index[x] < members /\ member[index[x]] = x
              THEN UNCHANGED <<members, limit, member, index>>
              ELSE Insert(x, limit, member, index)
  /\ elems' = elems \cup {x}
  /\ UNCHANGED ioVars

(* Variant of fastset_remove that drops the last member instead of moving  *)
(* it into the slot of x.  C12 must fail with it.                          *)
fastset_remove_dropsLast(x) ==
  /\ IF UnsignedBelow(x, limit) /\ index[x] < members /\ member[index[x]] = x
       THEN /\ members' = members - 1
            /\ UNCHANGED <<limit, member, index>>
       ELSE UNCHANGED <<members, limit, member, index>>
  /\ elems' = elems \ {x}
  /\ UNCHANGED ioVars

(* Variant of fastset_remove that moves the last member into the vacated   *)
(* slot without updating its index[] entry.  C10 must fail with it.        *)
fastset_remove_staleIndex(x) ==
  /\ IF UnsignedBelow(x, limit) /\ index[x] < members /\ member[index[x]] = x
       THEN /\ members' = members - 1
            /\ member' = [member EXCEPT ![index[x]] = member[members - 1]]
            /\ UNCHANGED <<limit, index>>
       ELSE UNCHANGED <<members, limit, member, index>>
  /\ elems' = elems \ {x}
  /\ UNCHANGED ioVars

(* Variant of fastset_remove that takes x for a member as soon as index[x]  *)
(* lies in the live range, without comparing member[index[x]] with x.      *)
(* C19 must fail with it.                                                  *)
fastset_remove_trustsIndex(x) ==
  /\ IF UnsignedBelow(x, limit) /\ index[x] < members
       THEN LET idx == index[x]
                last == member[members - 1]
            IN  /\ members' = members - 1
                /\ index' = [index EXCEPT ![last] = idx]
                /\ member' = [member EXCEPT ![idx] = last]
                /\ limit' = limit
       ELSE UNCHANGED <<members, limit, member, index>>
  /\ elems' = elems \ {x}
  /\ UNCHANGED ioVars

(* fastset_remove (lines 193-206)                                          *)
fastset_remove(x) ==
  /\ IF UnsignedBelow(x, limit) /\ index[x] < members /\ member[index[x]] = x
       THEN LET idx == index[x]
                last == member[members - 1]
            IN  /\ members' = members - 1
                /\ index' = [index EXCEPT ![last] = idx]
                /\ member' = [member EXCEPT ![idx] = last]
                /\ limit' = limit
       ELSE UNCHANGED <<members, limit, member, index>>
  /\ elems' = elems \ {x}
  /\ UNCHANGED ioVars

SetNext ==
  \/ fastset_init /\ UNCHANGED <<popped, added, removed, fresh>>
  \/ fastset_vacate /\ UNCHANGED <<popped, added, removed, fresh>>
  \/ fastset_pop /\ UNCHANGED <<popped, added, removed, fresh>>
  \/ \E x \in Vals : fastset_add(x) /\ UNCHANGED <<popped, added, removed, fresh>>
  \/ \E x \in Ints : fastset_remove(x) /\ UNCHANGED <<popped, added, removed, fresh>>

SetSpec == SetInit /\ [][SetNext]_vars

(* The same operations with the value fastset_pop returns kept in popped.  *)
PopNext ==
  \/ fastset_init /\ popped' = <<>> /\ UNCHANGED <<added, removed, fresh>>
  \/ fastset_vacate /\ popped' = <<>> /\ UNCHANGED <<added, removed, fresh>>
  \/ fastset_pop /\ popped' = <<PopResult>> /\ UNCHANGED <<added, removed, fresh>>
  \/ \E x \in Vals : fastset_add(x) /\ popped' = <<>> /\ UNCHANGED <<added, removed, fresh>>
  \/ \E x \in Ints : fastset_remove(x) /\ popped' = <<>> /\ UNCHANGED <<added, removed, fresh>>

PopSpec == SetInit /\ [][PopNext]_vars

(* The same operations with the argument of the last fastset_add kept in   *)
(* added.                                                                  *)
AddNext ==
  \/ fastset_init /\ added' = <<>> /\ UNCHANGED <<popped, removed, fresh>>
  \/ fastset_vacate /\ added' = <<>> /\ UNCHANGED <<popped, removed, fresh>>
  \/ fastset_pop /\ added' = <<>> /\ UNCHANGED <<popped, removed, fresh>>
  \/ \E x \in Vals :
       fastset_add(x) /\ added' = <<x>> /\ UNCHANGED <<popped, removed, fresh>>
  \/ \E x \in Ints :
       fastset_remove(x) /\ added' = <<>> /\ UNCHANGED <<popped, removed, fresh>>

AddSpec == SetInit /\ [][AddNext]_vars

(* The same operations with the argument of a fastset_remove that took a   *)
(* member out kept in removed.                                             *)
RemNext ==
  \/ fastset_init /\ removed' = <<>> /\ UNCHANGED <<popped, added, fresh>>
  \/ fastset_vacate /\ removed' = <<>> /\ UNCHANGED <<popped, added, fresh>>
  \/ fastset_pop /\ removed' = <<>> /\ UNCHANGED <<popped, added, fresh>>
  \/ \E x \in Vals : fastset_add(x) /\ removed' = <<>> /\ UNCHANGED <<popped, added, fresh>>
  \/ \E x \in Ints :
       /\ fastset_remove(x)
       /\ removed' = IF x \in elems THEN <<x>> ELSE <<>>
       /\ UNCHANGED <<popped, added, fresh>>

RemSpec == SetInit /\ [][RemNext]_vars

(* The same operations with the record of the fastset_add calls since the  *)
(* set was last emptied: after fastset_init or fastset_vacate, fresh.order *)
(* lists the distinct arguments of the fastset_add calls in the order of   *)
(* their first call; any other operation ends the record.                  *)
NotFresh == [via |-> "none", order |-> <<>>]
Added(x) ==
  IF fresh.via = "none" \/ \E i \in DOMAIN fresh.order : fresh.order[i] = x
    THEN fresh
    ELSE [fresh EXCEPT !.order = Append(@, x)]

FreshNext ==
  \/ fastset_init /\ fresh' = [via |-> "init", order |-> <<>>] /\ UNCHANGED <<popped, added, removed>>
  \/ fastset_vacate /\ fresh' = [via |-> "vacate", order |-> <<>>] /\ UNCHANGED <<popped, added, removed>>
  \/ fastset_pop /\ fresh' = NotFresh /\ UNCHANGED <<popped, added, removed>>
  \/ \E x \in Vals : fastset_add(x) /\ fresh' = Added(x) /\ UNCHANGED <<popped, added, removed>>
  \/ \E x \in Ints : fastset_remove(x) /\ fresh' = NotFresh /\ UNCHANGED <<popped, added, removed>>

FreshSpec == SetInit /\ [][FreshNext]_vars

(***************************************************************************)
(* Claims about the fast set, checked under SetSpec                        *)
(***************************************************************************)

(* C10: representation invariant: the leading `members` entries of         *)
(* member[] are pairwise distinct and below limit, index[member[p]] = p    *)
(* for each of them, and fastset_contains(x) holds exactly for the values  *)
(* added and not since removed, popped or vacated.                         *)
C10_RepresentationInvariant ==
  /\ members <= limit
  /\ \A p \in 0 .. (members - 1) :
       /\ member[p] < limit
       /\ index[member[p]] = p
       /\ \A q \in 0 .. (members - 1) : p # q => member[p] # member[q]
  /\ \A x \in Ints : fastset_contains(x) <=> x \in elems

C10_Witness ==
  /\ members = 2
  /\ limit = MaxLimit
  /\ elems = {0, MaxLimit - 1}
  /\ member[0] = MaxLimit - 1
  /\ index[1] = 0 /\ member[2] = 1

(* C11: for every nonnegative x, after fastset_add(x) fastset_contains(x)  *)
(* is true, every previous member is still a member, and fastset_members   *)
(* has grown by exactly one if x was not a member and is unchanged if it   *)
(* was.  (A step that ends with added = <<x>> is a fastset_add(x).)        *)
C11_AddPostcondition ==
  [][\A x \in Vals :
       added' = <<x>> =>
         /\ fastset_contains(x)'
         /\ \A y \in elems : fastset_contains(y)'
         /\ fastset_members' =
              fastset_members + (IF x \in elems THEN 0 ELSE 1)]_vars

(* fastset_add has just put the last missing value into a set that held    *)
(* all the others, the arrays having grown on the way.                     *)
C11_Witness ==
  /\ added # <<>>
  /\ elems = Vals
  /\ fastset_members = MaxLimit
  /\ \A x \in Vals : fastset_contains(x)

(* C12: for every member x, after fastset_remove(x) fastset_contains(x) is *)
(* false, fastset_members has decreased by exactly one, and every other    *)
(* member is still a member (the moved last member included, and also when *)
(* x is the last member).                                                  *)
C12_RemovePostcondition ==
  [][\A x \in Ints :
       (x \in elems /\ fastset_remove(x)) =>
         /\ ~fastset_contains(x)'
         /\ fastset_members' = fastset_members - 1
         /\ \A y \in elems \ {x} : fastset_contains(y)']_vars

(* fastset_remove has just taken out a member that was not the last one:   *)
(* the former last member now sits in its slot and is still a member.      *)
C12_Witness ==
  /\ removed # <<>>
  /\ fastset_members = MaxLimit - 1
  /\ index[removed[1]] < members
  /\ fastset_contains(member[index[removed[1]]])

(* C13: whatever stale contents member[] and index[] hold, fastset_vacate  *)
(* followed by a sequence of fastset_add calls gives the observable        *)
(* results that the same calls give on a freshly initialised set: both are *)
(* the same function of the sequence of distinct values added, namely      *)
(* fastset_contains is true exactly for the values added, fastset_members  *)
(* is their number, fastset_get enumerates them in the order of their      *)
(* first addition, and repeated fastset_pop returns them in reverse.       *)
C13_VacateLikeFresh ==
  fresh.via \in {"init", "vacate"} =>
    LET o == fresh.order
        n == Len(fresh.order)
    IN /\ fastset_members = n
       /\ \A i \in 1 .. n : fastset_get(i - 1) = o[i]
       /\ \A x \in Ints : fastset_contains(x) <=> (\E i \in 1 .. n : o[i] = x)
       /\ PopSequence = [i \in 1 .. n |-> o[n + 1 - i]]

(* Two values were added after a fastset_vacate while a value that is not  *)
(* a member still has an index[] entry inside the live range and a cell    *)
(* above the live range still holds a value.                               *)
C13_Witness ==
  /\ fresh.via = "vacate"
  /\ Len(fresh.order) = 2
  /\ limit = MaxLimit
  /\ \E x \in Vals : x \notin elems /\ index[x] < members
  /\ member[members] \in Vals

(* C14: fastset_pop returns -1 and leaves the set unchanged when the set   *)
(* is empty; otherwise it returns a value that was a member, after which   *)
(* that value is no longer a member, fastset_members has decreased by      *)
(* exactly one, and every other member is still a member.  (A step that    *)
(* ends with popped = <<v>> is a fastset_pop that returned v.)             *)
C14_PopContract ==
  [][\A v \in Ints :
       popped' = <<v>> =>
         IF elems = {}
           THEN /\ v = -1
                /\ UNCHANGED <<members, limit, member, index>>
                /\ \A y \in Ints : ~fastset_contains(y)'
           ELSE /\ v \in elems
                /\ ~fastset_contains(v)'
                /\ fastset_members' = fastset_members - 1
                /\ \A y \in elems \ {v} : fastset_contains(y)']_vars

(* fastset_pop has just returned a member of a full set; the other members *)
(* are still there.                                                        *)
C14_Witness ==
  /\ popped # <<>>
  /\ popped[1] \in Vals
  /\ fastset_members = MaxLimit - 1
  /\ elems = Vals \ {popped[1]}
  /\ ~fastset_contains(popped[1])

(* C19: for any integer x that is not a member, negative x and x >= limit  *)
(* included, fastset_contains(x) is false and fastset_remove(x) leaves     *)
(* members, limit and the set of members unchanged, in every reachable     *)
(* state, stale index[] entries or not.                                    *)
C19_NonMemberFrame ==
  /\ [](\A x \in Ints : x \notin elems => ~fastset_contains(x))
  /\ [][\A x \in Ints :
          (x \notin elems /\ fastset_remove(x)) =>
            /\ UNCHANGED <<members, limit>>
            /\ \A y \in Ints : fastset_contains(y)' <=> fastset_contains(y)]_vars

(* A value that is not a member has an index[] entry inside the live range *)
(* of a set with two members, while a negative integer and one at the      *)
(* limit are not members either.                                           *)
C19_Witness ==
  /\ limit = MaxLimit
  /\ fastset_members = 2
  /\ \E x \in Vals : x \notin elems /\ index[x] < members /\ ~fastset_contains(x)
  /\ ~fastset_contains(-1)
  /\ ~fastset_contains(limit)

====
